---- MODULE Spec2Model ----
(***************************************************************************)
(* A model of qlog: Logger handles (src/src/lib.rs) that send LogBuilder   *)
(* entries over an unbounded flume channel to one backing thread per       *)
(* Logger::new, which renders each entry and inserts the resulting Log     *)
(* into a VecDeque guarded by a std Mutex.                                 *)
(*                                                                         *)
(* Steps are the points at which threads can interleave: a channel send, a *)
(* channel receive, a mutex acquisition, and the critical section that     *)
(* ends with the release of the guard.  The timestamp of a Log (Utc::now)  *)
(* is not represented: no property below reads it.                         *)
(*                                                                         *)
(* A logged value travels in an ErasedLoggable (src/src/loggable.rs): its  *)
(* bytes stand inline in the container or in a heap block of their own.    *)
(***************************************************************************)
EXTENDS Integers, Sequences, FiniteSets, Bags, TLC

\* ------------------------------------------------------------------ bounds
NThreads == 2       \* client threads using the handles
MaxLogs == 2        \* calls of Logger::log, all client threads together
MaxLimit == 1       \* largest Some(limit) passed to Logger::new
MaxHandles == 2     \* Logger values alive at once (the original and clones)
MaxLoggers == 2     \* calls of Logger::new

Threads == 1..NThreads
Ids == 1..MaxLoggers

\* Option<usize>: None, or Some(n) written as the number n.
None == -1
Limits == {None} \cup (0..MaxLimit)

\* The mutex is free, or held by the backing thread w or by client thread t.
Free == <<"free", 0>>
ByWorker(w) == <<"worker", w>>
ByThread(t) == <<"thread", t>>

\* loggable.rs: the container is 32 bytes, of which one usize (8 bytes on the
\* 64-bit targets) is the function pointer and the rest holds a small value.
ERASED_SIZE == 32
USIZE_BYTES == 8
INLINE_DATA_SIZE == ERASED_SIZE - USIZE_BYTES

\* size_of::<L>() of the values handed to Logger::log: nothing, one byte, a
\* value that just fits inline, one byte more, and a large one.
Sizes == {0, 1, INLINE_DATA_SIZE, INLINE_DATA_SIZE + 1, 2 * INLINE_DATA_SIZE}

NoText == <<0, 0>>
NoWorker == [pc |-> "none", logs |-> 0, rx |-> 0, limit |-> None,
             level |-> "-", buf |-> NoText]

VARIABLES
    handle,     \* the live Logger values, each {logs, sender}
    logs,       \* Ids -> the VecDeque<Log> inside each Arc<Mutex<..>>
    holder,     \* Ids -> who holds each mutex
    poisoned,   \* Ids -> the mutex's poison flag
    chan,       \* Ids -> the queue of each flume channel
    worker,     \* Ids -> the backing thread spawned by the i-th Logger::new
    thread,     \* Threads -> position of each client thread
    alloc,      \* how many histories, channels and backing threads exist,
                \* and how many Logger::new calls were made
    sent,       \* Threads -> number of Logger::log calls made so far
    enqueued,   \* Ids -> every entry ever sent on the channel, in send order
    appended,   \* the entries for which a Log was ever pushed
    fresh,      \* Ids -> "never" cleared; else the state of the last
                \* completed clear(), see ClearDone and Log
    heap,       \* the blocks obtained from std::alloc::alloc and not yet
                \* given back, each {data, layout}
    allocated,  \* bag of the blocks ever returned by std::alloc::alloc
    freed,      \* bag of the blocks ever passed to std::alloc::dealloc
    rendered,   \* bag of the entries on which log_to was invoked
    built       \* the calls of ErasedLoggable::new made: <<entry, size>>

vars == <<handle, logs, holder, poisoned, chan, worker, thread, alloc,
          sent, enqueued, appended, fresh, heap, allocated, freed, rendered,
          built>>

\* What the erased containers touch.
store == <<heap, allocated, freed, rendered, built>>

\* ---------------------------------------------------------------- helpers
\* Level of the k-th value logged by thread t (the caller's choice).
LevelOf(t, k) == IF (t + k) % 2 = 0 THEN "Info" ELSE "Error"

Handles == 1..Len(handle)

\* Sender handles alive on channel c (flume's sender count).
Senders(c) == {i \in Handles : handle[i].sender = c}

\* The messages of the expects, which name the thread that unwound on them
\* (and a note for a panic raised by the caller's own closure).
RenderFailed == "logging ok"
ChannelClosed == "channel is open"
LockPoisoned == "lock is not poisoned"
CallbackFailed == "callback panicked"

\* The receiver of channel c lives inside the closure of the backing thread;
\* it is dropped when that thread returns or unwinds.
ReceiverAlive(c) ==
    \E w \in Ids : /\ worker[w].rx = c
                    /\ worker[w].pc \notin {"none", "done", RenderFailed, LockPoisoned}

\* inner: what the running callback last called on the logger, "-" if nothing.
Idle == [pc |-> "idle", logs |-> 0, seen |-> <<>>, inner |-> "-"]
\* A thread that unwound, with the message of the expect.
Panicked(msg) == [pc |-> msg, logs |-> 0, seen |-> <<>>, inner |-> "-"]

\* A running method borrows its &Logger, so that Logger cannot be dropped:
\* handle i is borrowed if a thread is inside a method on its history and no
\* other live handle could be the one that thread uses.
Borrowed(i) ==
    /\ \E t \in Threads : thread[t].pc \in {"callback", "clearing", "blocked"}
                          /\ thread[t].logs = handle[i].logs
    /\ \A j \in Handles : j # i => handle[j] # handle[i]

\* The history that the backing thread receiving from channel c writes to.
Feeds(c) == worker[CHOOSE w \in Ids : worker[w].rx = c].logs

\* An entry of channel c is pending: queued, or taken by the backing thread
\* and not yet pushed.
Pending(c) ==
    \/ chan[c] # <<>>
    \/ \E w \in Ids : worker[w].rx = c /\ worker[w].pc \in {"lock", "insert"}

Total(f) == LET RECURSIVE Sum(_)
                Sum(n) == IF n = 0 THEN 0 ELSE f[n] + Sum(n - 1)
            IN  Sum(NThreads)

RemoveAt(q, i) == SubSeq(q, 1, i - 1) \o SubSeq(q, i + 1, Len(q))

\* ------------------------------------------------------------ Logger::new
\* let (sender, receiver) = flume::unbounded(); let logs = Arc::new(..);
\* thread::spawn(move || ...); Self { logs, sender }
InitWith(limit) ==
    /\ handle = <<[logs |-> 1, sender |-> 1]>>
    /\ logs = [i \in Ids |-> <<>>]
    /\ holder = [i \in Ids |-> Free]
    /\ poisoned = [i \in Ids |-> FALSE]
    /\ chan = [i \in Ids |-> <<>>]
    /\ worker = [i \in Ids |->
                    IF i = 1
                    THEN [NoWorker EXCEPT !.pc = "recv", !.logs = 1, !.rx = 1,
                                          !.limit = limit]
                    ELSE NoWorker]
    /\ thread = [t \in Threads |-> Idle]
    /\ alloc = [hist |-> 1, chan |-> 1, worker |-> 1, new |-> 1]
    /\ sent = [t \in Threads |-> 0]
    /\ enqueued = [i \in Ids |-> <<>>]
    /\ appended = {}
    /\ fresh = [i \in Ids |-> "never"]
    /\ heap = {}
    /\ allocated = EmptyBag
    /\ freed = EmptyBag
    /\ rendered = EmptyBag
    /\ built = {}

Init == \E limit \in Limits : InitWith(limit)

\* --------------------------------------------------------- ErasedLoggable
\* The test size_of::<L>() >= INLINE_DATA_SIZE in its place.
ExceedsOrFills(size) == size >= INLINE_DATA_SIZE

\* if std::mem::size_of::<L>() > INLINE_DATA_SIZE { .. Boxed } else { .. Inline }
Exceeds(size) == size > INLINE_DATA_SIZE

\* Inner::new: the container of a value of the given size that renders to the
\* text e (ok: its log_to returns Ok).  A boxed container records the layout
\* it asked the allocator for; its block is named after the value it holds.
\* size is not stored by the code: it is the size of the value inside.
ErasedNew(e, ok, size) ==
    [text |-> e, ok |-> ok, size |-> size, boxed |-> Exceeds(size),
     layout |-> IF Exceeds(size) THEN size ELSE None]

\* let layout = Layout::new::<L>(); let data = std::alloc::alloc(layout):
\* the blocks Inner::new obtains for that value.
Allocates(e, size) ==
    IF Exceeds(size) THEN {[data |-> e, layout |-> size]} ELSE {}

\* impl Drop: if let Inner::Boxed { layout, data, .. } = self.0 { dealloc(data, layout) }
\* the blocks given back when container l is dropped.
Deallocates(l) ==
    IF l.boxed THEN {[data |-> l.text, layout |-> l.layout]} ELSE {}

\* The blocks given back when the entries of a queue are dropped.
DeallocatesAll(q) == UNION {Deallocates(q[k].loggable) : k \in 1..Len(q)}

\* ------------------------------------------------------------ Logger::log
\* A channel made by flume::bounded(1) instead: a send waits for room.
HasRoomBounded(q) == Len(q) < 1

\* flume::unbounded(): a send finds room whatever the queue holds.
HasRoom(q) == TRUE

\* flume's send: the entry is queued at the back.
Send(q, b) == Append(q, b)

\* size_of::<L>() of the k-th value that thread t logs (the caller's choice):
\* the threads between them log values of either kind, at and off the limit.
SizeOf(t, k) ==
    <<INLINE_DATA_SIZE + 1, INLINE_DATA_SIZE, 0, 2 * INLINE_DATA_SIZE>>
        [((2 * (t - 1) + (k - 1)) % 4) + 1]

\* self.sender.send(LogBuilder { level, loggable: ErasedLoggable::new(l) })
\* for the next value of thread t, of the given size, which renders to the
\* text <<t, k>> or fails to render when ok is FALSE.  The send never waits;
\* once the receiver is gone it returns the entry in an Err, and the entry is
\* dropped when the expect unwinds.
Submit(t, i, ok, size) ==
    LET c == handle[i].sender
        e == <<t, sent[t] + 1>>
        l == ErasedNew(e, ok, size)
        b == [level |-> LevelOf(t, sent[t] + 1), loggable |-> l]
    IN  /\ sent' = [sent EXCEPT ![t] = @ + 1]
        /\ built' = built \cup {<<e, size>>}
        /\ allocated' = allocated (+) SetToBag(Allocates(e, size))
        /\ IF ReceiverAlive(c)
           THEN /\ chan' = [chan EXCEPT ![c] = Send(@, b)]
                /\ enqueued' = [enqueued EXCEPT ![c] = Append(@, e)]
                /\ fresh' = [fresh EXCEPT ![Feeds(c)] =
                                IF @ = "never" THEN @ ELSE "stale"]
                /\ heap' = heap \cup Allocates(e, size)
                /\ UNCHANGED freed
           ELSE /\ heap' = (heap \cup Allocates(e, size)) \ Deallocates(l)
                /\ freed' = freed (+) SetToBag(Deallocates(l))
                /\ UNCHANGED <<chan, enqueued, fresh>>
        /\ UNCHANGED <<handle, logs, worker, alloc, appended, rendered>>

\* A log that locks the history, as with_logs and clear do.
LogLocksHistory(hd) == {hd.logs}

\* The mutexes Logger::log locks through handle hd: it uses self.sender only.
LogLocks(hd) == {}

\* Logger::log called by a thread that is not inside a callback; .expect
\* ("channel is open") panics the calling thread on the Err.
LogSized(t, i, ok, size) ==
    /\ thread[t].pc = "idle"
    /\ i \in Handles
    /\ Total(sent) < MaxLogs
    /\ HasRoom(chan[handle[i].sender])
    /\ \A m \in LogLocks(handle[i]) : holder[m] = Free
    /\ Submit(t, i, ok, size)
    /\ thread' = IF ReceiverAlive(handle[i].sender)
                 THEN thread
                 ELSE [thread EXCEPT ![t] = Panicked(ChannelClosed)]
    /\ UNCHANGED <<holder, poisoned>>

\* A log that pushes the record itself, under the lock, before it returns.
LogSync(t, i, ok) ==
    /\ thread[t].pc = "idle"
    /\ i \in Handles
    /\ Total(sent) < MaxLogs
    /\ holder[handle[i].logs] = Free
    /\ sent' = [sent EXCEPT ![t] = @ + 1]
    /\ enqueued' = [enqueued EXCEPT ![handle[i].sender] = Append(@, <<t, sent[t] + 1>>)]
    /\ logs' = [logs EXCEPT ![handle[i].logs] =
                   Append(@, [level |-> LevelOf(t, sent[t] + 1),
                              message |-> <<t, sent[t] + 1>>])]
    /\ appended' = appended \cup {<<t, sent[t] + 1>>}
    /\ UNCHANGED <<handle, holder, poisoned, chan, worker, thread, alloc, fresh, store>>

Log(t, i, ok) == LogSized(t, i, ok, SizeOf(t, sent[t] + 1))

\* ---------------------------------------------------------- Clone and Drop
\* A clone that keeps the sender and allocates a history of its own.
CloneDeep(hd) ==
    [logs |-> IF hd.logs < MaxLoggers THEN hd.logs + 1 ELSE 1, sender |-> hd.sender]

\* #[derive(Clone)]: Arc::clone of logs and Sender::clone of sender.
CloneHandle(hd) == [logs |-> hd.logs, sender |-> hd.sender]

Clone(i) ==
    /\ i \in Handles
    /\ Len(handle) < MaxHandles
    /\ handle' = Append(handle, CloneHandle(handle[i]))
    /\ UNCHANGED <<logs, holder, poisoned, chan, worker, thread, alloc,
                   sent, enqueued, appended, fresh, store>>

\* Dropping a Logger drops its Sender and its Arc.  The queue of a channel
\* lives as long as a Sender or the Receiver does: with the last Sender of a
\* channel whose Receiver is gone, the entries left in the queue are dropped.
Drop(i) ==
    /\ i \in Handles
    /\ ~Borrowed(i)
    /\ handle' = RemoveAt(handle, i)
    /\ LET c == handle[i].sender
           left == IF Senders(c) = {i} /\ ~ReceiverAlive(c) THEN chan[c] ELSE <<>>
       IN  /\ chan' = IF left = <<>> THEN chan ELSE [chan EXCEPT ![c] = <<>>]
           /\ heap' = heap \ DeallocatesAll(left)
           /\ freed' = freed (+) SetToBag(DeallocatesAll(left))
    /\ UNCHANGED <<logs, holder, poisoned, worker, thread, alloc,
                   sent, enqueued, appended, fresh, allocated, rendered, built>>

\* ------------------------------------------------------ Logger::with_logs
\* A with_logs that hands the deque to f without locking the mutex.
WithLogsUnlocked(t, i) ==
    /\ thread[t].pc = "idle"
    /\ i \in Handles
    /\ thread' = [thread EXCEPT ![t] =
                     [pc |-> "callback", logs |-> handle[i].logs,
                      seen |-> logs[handle[i].logs], inner |-> "-"]]
    /\ UNCHANGED <<handle, logs, holder, poisoned, chan, worker, alloc,
                   sent, enqueued, appended, fresh, store>>

\* self.logs.lock().expect("lock is not poisoned"): lock() returns once the
\* mutex is free; on a poisoned mutex it returns Err, expect panics and the
\* guard inside the error releases the mutex.  Otherwise f(&logs) starts.
WithLogs(t, i) ==
    /\ thread[t].pc = "idle"
    /\ i \in Handles
    /\ LET m == handle[i].logs
       IN  /\ holder[m] = Free
           /\ IF poisoned[m]
              THEN /\ thread' = [thread EXCEPT ![t] = Panicked(LockPoisoned)]
                   /\ UNCHANGED holder
              ELSE /\ thread' = [thread EXCEPT ![t] =
                                    [pc |-> "callback", logs |-> m, seen |-> logs[m],
                                     inner |-> "-"]]
                   /\ holder' = [holder EXCEPT ![m] = ByThread(t)]
    /\ UNCHANGED <<handle, logs, poisoned, chan, worker, alloc,
                   sent, enqueued, appended, fresh, store>>

\* f(&logs) returns and the guard is dropped.
WithLogsReturn(t) ==
    /\ thread[t].pc = "callback"
    /\ holder' = [holder EXCEPT ![thread[t].logs] = Free]
    /\ thread' = [thread EXCEPT ![t] = Idle]
    /\ UNCHANGED <<handle, logs, poisoned, chan, worker, alloc,
                   sent, enqueued, appended, fresh, store>>

\* A mutex without poisoning: the guard dropped during unwinding only
\* releases it.
WithLogsPanicUnpoisoned(t) ==
    /\ thread[t].pc = "callback"
    /\ holder' = [holder EXCEPT ![thread[t].logs] = Free]
    /\ thread' = [thread EXCEPT ![t] = Panicked(CallbackFailed)]
    /\ UNCHANGED <<handle, logs, poisoned, chan, worker, alloc,
                   sent, enqueued, appended, fresh, store>>

\* f(&logs) panics: the guard is dropped during unwinding, which poisons the
\* mutex.
WithLogsPanic(t) ==
    /\ thread[t].pc = "callback"
    /\ holder' = [holder EXCEPT ![thread[t].logs] = Free]
    /\ poisoned' = [poisoned EXCEPT ![thread[t].logs] = TRUE]
    /\ thread' = [thread EXCEPT ![t] = Panicked(CallbackFailed)]
    /\ UNCHANGED <<handle, logs, chan, worker, alloc,
                   sent, enqueued, appended, fresh, store>>

\* ------------------------------------------- calls made inside a callback
\* A mutex that lets the thread holding it lock it again.
AcquiresReentrant(h, who) == h \in {Free, who}

\* Mutex::lock of std returns only once nobody holds the mutex, the caller
\* included: a thread that locks a mutex it holds waits for itself.  (std
\* leaves open whether such a lock() panics instead; it does so only on the
\* targets without threads, where Logger::new cannot spawn its thread.)
Acquires(h, who) == h = Free

\* f calls with_logs or clear (op) on a handle of the history it is given:
\* the inner self.logs.lock() of lib.rs:110 or lib.rs:117.
Reenter(t, i, op) ==
    /\ thread[t].pc = "callback"
    /\ i \in Handles
    /\ handle[i].logs = thread[t].logs
    /\ thread' = [thread EXCEPT
                     ![t].pc = IF Acquires(holder[thread[t].logs], ByThread(t))
                               THEN "inner" ELSE "blocked",
                     ![t].inner = op]
    /\ UNCHANGED <<handle, logs, holder, poisoned, chan, worker, alloc,
                   sent, enqueued, appended, fresh, store>>

\* f calls Logger::log.  When the expect panics, the panic unwinds through
\* with_logs, whose guard is dropped and poisons the mutex.
LogInCallback(t, i, ok) ==
    /\ thread[t].pc = "callback"
    /\ i \in Handles
    /\ Total(sent) < MaxLogs
    /\ HasRoom(chan[handle[i].sender])
    /\ \A m \in LogLocks(handle[i]) : holder[m] = Free
    /\ Submit(t, i, ok, SizeOf(t, sent[t] + 1))
    /\ IF ReceiverAlive(handle[i].sender)
       THEN /\ thread' = [thread EXCEPT ![t].inner = "log"]
            /\ UNCHANGED <<holder, poisoned>>
       ELSE /\ thread' = [thread EXCEPT ![t] = Panicked(ChannelClosed)]
            /\ holder' = [holder EXCEPT ![thread[t].logs] = Free]
            /\ poisoned' = [poisoned EXCEPT ![thread[t].logs] = TRUE]

\* ---------------------------------------------------------- Logger::clear
\* let mut logs = self.logs.lock().expect("lock is not poisoned")
Clear(t, i) ==
    /\ thread[t].pc = "idle"
    /\ i \in Handles
    /\ LET m == handle[i].logs
       IN  /\ holder[m] = Free
           /\ IF poisoned[m]
              THEN /\ thread' = [thread EXCEPT ![t] = Panicked(LockPoisoned)]
                   /\ UNCHANGED holder
              ELSE /\ thread' = [thread EXCEPT ![t] =
                                    [pc |-> "clearing", logs |-> m, seen |-> <<>>,
                                     inner |-> "-"]]
                   /\ holder' = [holder EXCEPT ![m] = ByThread(t)]
    /\ UNCHANGED <<handle, logs, poisoned, chan, worker, alloc,
                   sent, enqueued, appended, fresh, store>>

\* A clear that only shrinks the storage.
ShrunkDeque(q) == q

\* logs.clear(); logs.shrink_to_fit(): the deque afterwards.
ClearedDeque(q) == <<>>

\* clear, shrink_to_fit, and the guard is dropped on return.  fresh records
\* whether an entry was pending on a channel feeding this history when clear
\* returned ("cleared") or not ("quiet").
ClearDone(t) ==
    /\ thread[t].pc = "clearing"
    /\ LET m == thread[t].logs
       IN  /\ logs' = [logs EXCEPT ![m] = ClearedDeque(@)]
           /\ holder' = [holder EXCEPT ![m] = Free]
           /\ fresh' = [fresh EXCEPT ![m] =
                          IF \E w \in Ids : worker[w].logs = m /\ Pending(worker[w].rx)
                          THEN "cleared" ELSE "quiet"]
    /\ thread' = [thread EXCEPT ![t] = Idle]
    /\ UNCHANGED <<handle, poisoned, chan, worker, alloc, sent, enqueued, appended,
                   store>>

\* ------------------------------------------------------ the backing thread
\* receiver.recv() hands out the entry at the front of the queue.
Front(q) == Head(q)

\* The result of log_to ignored: the thread goes on with what was written.
AfterRenderIgnored(ok) == "lock"

\* .expect("logging ok"): where the backing thread goes after log_to: on to
\* the lock, or it unwinds with that message.
AfterRender(ok) == IF ok THEN "lock" ELSE RenderFailed

\* while let Ok(builder) = receiver.recv() { let mut buf = String::new();
\* builder.loggable.log_to(&mut buf).expect("logging ok"); buf.shrink_to_fit();
\* Rendering touches nothing shared, so it is one step with the receive: the
\* thread goes on to the lock with the rendered text, or unwinds.  log_to
\* takes the container by value, which is dropped when log_to returns.  When
\* the thread unwinds, its Receiver is dropped, and with it the queue if no
\* Sender is left.
WorkerRecv(w) ==
    /\ worker[w].pc = "recv"
    /\ chan[worker[w].rx] # <<>>
    /\ LET c == worker[w].rx
           b == Front(chan[c])
           left == IF ~b.loggable.ok /\ Senders(c) = {} THEN Tail(chan[c]) ELSE <<>>
       IN  /\ worker' = [worker EXCEPT
                            ![w].pc = AfterRender(b.loggable.ok),
                            ![w].level = IF b.loggable.ok THEN b.level ELSE "-",
                            ![w].buf = IF b.loggable.ok THEN b.loggable.text ELSE NoText]
           /\ chan' = [chan EXCEPT ![c] = IF left = <<>> THEN Tail(@) ELSE <<>>]
           /\ rendered' = rendered (+) SetToBag({b.loggable.text})
           /\ heap' = heap \ (Deallocates(b.loggable) \cup DeallocatesAll(left))
           /\ freed' = freed (+) SetToBag(Deallocates(b.loggable))
                             (+) SetToBag(DeallocatesAll(left))
    /\ UNCHANGED <<handle, logs, holder, poisoned, thread, alloc,
                   sent, enqueued, appended, fresh, allocated, built>>

\* recv() returns Err only when the queue is empty and every sender is gone.
Disconnected(c) == chan[c] = <<>> /\ Senders(c) = {}

\* The while-let loop ends and the thread returns.
WorkerExit(w) ==
    /\ worker[w].pc = "recv"
    /\ Disconnected(worker[w].rx)
    /\ worker' = [worker EXCEPT ![w].pc = "done"]
    /\ UNCHANGED <<handle, logs, holder, poisoned, chan, thread, alloc,
                   sent, enqueued, appended, fresh, store>>

\* logs.lock().expect("lock is not poisoned"); on a poisoned mutex the thread
\* unwinds, and its Receiver is dropped as in WorkerRecv.
WorkerLock(w) ==
    /\ worker[w].pc = "lock"
    /\ holder[worker[w].logs] = Free
    /\ IF poisoned[worker[w].logs]
       THEN /\ worker' = [worker EXCEPT ![w].pc = LockPoisoned, ![w].level = "-",
                                        ![w].buf = NoText]
            /\ LET c == worker[w].rx
                   left == IF Senders(c) = {} THEN chan[c] ELSE <<>>
               IN  /\ chan' = IF left = <<>> THEN chan ELSE [chan EXCEPT ![c] = <<>>]
                   /\ heap' = heap \ DeallocatesAll(left)
                   /\ freed' = freed (+) SetToBag(DeallocatesAll(left))
            /\ UNCHANGED holder
       ELSE /\ worker' = [worker EXCEPT ![w].pc = "insert"]
            /\ holder' = [holder EXCEPT ![worker[w].logs] = ByWorker(w)]
            /\ UNCHANGED <<chan, heap, freed>>
    /\ UNCHANGED <<handle, logs, poisoned, thread, alloc,
                   sent, enqueued, appended, fresh, allocated, rendered, built>>

\* The test written as limit.map_or(true, |limit| logs.len() == limit).
EvictUnlessLimited(q, limit) ==
    IF limit = None \/ Len(q) = limit
    THEN (IF q = <<>> THEN q ELSE Tail(q))
    ELSE q

\* The test written as logs.len() > limit.
EvictWhenOver(q, limit) ==
    IF limit # None /\ Len(q) > limit
    THEN (IF q = <<>> THEN q ELSE Tail(q))
    ELSE q

\* if limit.is_some_and(|limit| logs.len() == limit) { logs.pop_front(); }
\* pop_front on an empty deque returns None and changes nothing.
Evict(q, limit) ==
    IF limit # None /\ Len(q) = limit
    THEN (IF q = <<>> THEN q ELSE Tail(q))
    ELSE q

\* push_front in the place of push_back.
PushFront(q, log) == <<log>> \o q

\* logs.push_back(Log { time, level, message })
PushBack(q, log) == Append(q, log)

\* The critical section of the loop body, ended by mem::drop(logs).
WorkerInsert(w) ==
    /\ worker[w].pc = "insert"
    /\ logs' = [logs EXCEPT ![worker[w].logs] =
                   PushBack(Evict(@, worker[w].limit),
                            [level |-> worker[w].level, message |-> worker[w].buf])]
    /\ holder' = [holder EXCEPT ![worker[w].logs] = Free]
    /\ appended' = appended \cup {worker[w].buf}
    /\ worker' = [worker EXCEPT ![w].pc = "recv", ![w].level = "-", ![w].buf = NoText]
    /\ UNCHANGED <<handle, poisoned, chan, thread, alloc, sent, enqueued, fresh,
                   store>>

\* A further Logger::new(limit): one channel, one history, one backing
\* thread that owns the receiver and a clone of the Arc, and one handle.
Create(limit) ==
    /\ alloc.new < MaxLoggers
    /\ Len(handle) < MaxHandles
    /\ handle' = Append(handle, [logs |-> alloc.hist + 1, sender |-> alloc.chan + 1])
    /\ worker' = [worker EXCEPT ![alloc.worker + 1] =
                     [NoWorker EXCEPT !.pc = "recv", !.logs = alloc.hist + 1,
                                      !.rx = alloc.chan + 1, !.limit = limit]]
    /\ alloc' = [hist |-> alloc.hist + 1, chan |-> alloc.chan + 1,
                 worker |-> alloc.worker + 1, new |-> alloc.new + 1]
    /\ UNCHANGED <<logs, holder, poisoned, chan, thread, sent, enqueued, appended,
                   fresh, store>>

\* ------------------------------------------------------------ specification
Next ==
    \/ \E t \in Threads, i \in Handles, ok \in BOOLEAN : Log(t, i, ok)
    \/ \E i \in Handles : Clone(i)
    \/ \E i \in Handles : Drop(i)
    \/ \E t \in Threads, i \in Handles : WithLogs(t, i)
    \/ \E t \in Threads : WithLogsReturn(t)
    \/ \E t \in Threads : WithLogsPanic(t)
    \/ \E t \in Threads, i \in Handles : Clear(t, i)
    \/ \E t \in Threads : ClearDone(t)
    \/ \E w \in Ids : WorkerRecv(w)
    \/ \E w \in Ids : WorkerExit(w)
    \/ \E w \in Ids : WorkerLock(w)
    \/ \E w \in Ids : WorkerInsert(w)

Spec == Init /\ [][Next]_vars

\* The operating system runs the backing thread whenever it can take a step,
\* the mutex does not starve it for ever, and a callback or a clear that
\* holds the mutex comes to an end.
Fairness ==
    /\ \A w \in Ids : /\ WF_vars(WorkerRecv(w))
                      /\ WF_vars(WorkerExit(w))
                      /\ SF_vars(WorkerLock(w))
                      /\ WF_vars(WorkerInsert(w))
    /\ \A t \in Threads : /\ WF_vars(WithLogsReturn(t) \/ WithLogsPanic(t))
                          /\ WF_vars(ClearDone(t))

FairSpec == Spec /\ Fairness

\* Programs that call Logger::new more than once, with payloads that render
\* and callbacks that return.
NextMulti ==
    \/ Create(None)
    \/ \E t \in Threads, i \in Handles : Log(t, i, TRUE)
    \/ \E i \in Handles : Clone(i)
    \/ \E i \in Handles : Drop(i)
    \/ \E t \in Threads, i \in Handles : WithLogs(t, i)
    \/ \E t \in Threads : WithLogsReturn(t)
    \/ \E t \in Threads, i \in Handles : Clear(t, i)
    \/ \E t \in Threads : ClearDone(t)
    \/ \E w \in Ids : WorkerRecv(w)
    \/ \E w \in Ids : WorkerExit(w)
    \/ \E w \in Ids : WorkerLock(w)
    \/ \E w \in Ids : WorkerInsert(w)

SpecMulti == InitWith(None) /\ [][NextMulti]_vars

\* Programs whose callbacks call back into the logger.
NextReentrant ==
    \/ Next
    \/ \E t \in Threads, i \in Handles, op \in {"with_logs", "clear"} : Reenter(t, i, op)
    \/ \E t \in Threads, i \in Handles, ok \in BOOLEAN : LogInCallback(t, i, ok)

SpecReentrant == Init /\ [][NextReentrant]_vars

\* Programs that only log and drop their handles, with values of every size.
NextErased ==
    \/ \E t \in Threads, i \in Handles, ok \in BOOLEAN, size \in Sizes :
          LogSized(t, i, ok, size)
    \/ \E i \in Handles : Drop(i)
    \/ \E w \in Ids : WorkerRecv(w)
    \/ \E w \in Ids : WorkerExit(w)
    \/ \E w \in Ids : WorkerLock(w)
    \/ \E w \in Ids : WorkerInsert(w)

SpecErased == InitWith(None) /\ [][NextErased]_vars

\* --------------------------------------------------- notions used by claims
Workers == {w \in Ids : worker[w].pc # "none"}

\* The messages of a history, front to back.
Messages(q) == [k \in 1..Len(q) |-> q[k].message]

\* The backing thread has drained its channel: nothing is queued, and it is
\* back in recv() (or has left the loop) with no entry in hand.
Drained(w) == chan[worker[w].rx] = <<>> /\ worker[w].pc \in {"recv", "done"}

\* Position of entry e in the send order of channel c.
SendPos(c, e) == CHOOSE k \in 1..Len(enqueued[c]) : enqueued[c][k] = e

\* C1: whatever limit Some(N) was passed to Logger::new, N = 0 included, the
\* history never holds more than N records.
C1_LengthAtMostLimit ==
    \A w \in Workers :
        worker[w].limit # None => Len(logs[worker[w].logs]) <= worker[w].limit

\* C2: with a limit Some(N), one producer thread, no clear and no failure,
\* once the backing thread has drained M > N submissions the history holds
\* exactly the last N submitted messages, in submission order.
C2_LastNInOrder ==
    \A w \in Workers : \A t \in Threads :
        LET N == worker[w].limit
            M == Len(enqueued[worker[w].rx])
        IN  ( /\ N # None
              /\ fresh[worker[w].logs] = "never"
              /\ Drained(w)
              /\ M > N
              /\ \A k \in 1..M : enqueued[worker[w].rx][k] = <<t, k>> )
            => Messages(logs[worker[w].logs]) = [k \in 1..N |-> <<t, M - N + k>>]

\* The statement of C2 for the limits N >= 1 only.
C2_LastNInOrder_PositiveLimit ==
    \A w \in Workers : \A t \in Threads :
        LET N == worker[w].limit
            M == Len(enqueued[worker[w].rx])
        IN  ( /\ N # None /\ N >= 1
              /\ fresh[worker[w].logs] = "never"
              /\ Drained(w)
              /\ M > N
              /\ \A k \in 1..M : enqueued[worker[w].rx][k] = <<t, k>> )
            => Messages(logs[worker[w].logs]) = [k \in 1..N |-> <<t, M - N + k>>]

\* C3: with no limit and no clear, once the backing thread has drained the
\* channel the history holds one record for each Logger::log call made by
\* the producer threads: none is lost, none appears twice.
C3_NoneLostNoneTwice ==
    \A w \in Workers :
        ( /\ worker[w].limit = None
          /\ fresh[worker[w].logs] = "never"
          /\ Drained(w)
          /\ alloc.new = 1 )
        => /\ Len(logs[worker[w].logs]) = Total(sent)
           /\ \A t \in Threads : \A k \in 1..sent[t] :
                 Cardinality({j \in 1..Len(logs[worker[w].logs]) :
                                 logs[worker[w].logs][j].message = <<t, k>>}) = 1

\* Every client thread has logged, the budget of calls is used up, and the
\* unlimited, never cleared history has been filled by the drained worker.
C3_Witness ==
    /\ worker[1].limit = None /\ fresh[1] = "never" /\ Drained(1)
    /\ \A t \in Threads : sent[t] >= 1
    /\ Total(sent) = MaxLogs
    /\ Len(logs[1]) = MaxLogs

\* C4: records stand in a history in the order in which their entries were
\* sent on the channel; in particular two records of the same producer
\* thread stand in the order in which that thread logged them.
C4_SendOrderKept ==
    \A w \in Workers :
        LET q == logs[worker[w].logs]
        IN  \A i, j \in 1..Len(q) :
                i < j =>
                    /\ SendPos(worker[w].rx, q[i].message) < SendPos(worker[w].rx, q[j].message)
                    /\ q[i].message[1] = q[j].message[1] => q[i].message[2] < q[j].message[2]

\* Another thread's callback is handed a history that holds two records of
\* one producer thread, the earlier one at the front.
C4_Witness ==
    \E t, u \in Threads :
        /\ t # u
        /\ thread[u].pc = "callback"
        /\ Messages(thread[u].seen) = <<<<t, 1>>, <<t, 2>>>>

\* Every entry a client thread can log.
Entries == Threads \X (1..MaxLogs)

\* Entry e was sent on channel c: the Logger::log call for it has returned.
Sent(c, e) == \E k \in 1..Len(enqueued[c]) : enqueued[c][k] = e

\* The backing thread has ended: it returned from its loop, or it unwound.
Ended(w) == worker[w].pc \in {"done", RenderFailed, LockPoisoned}

\* C5: every entry for which Logger::log has returned is eventually pushed
\* to the history by the backing thread, given fair scheduling in a process
\* that keeps running.
C5_EventuallyAppended ==
    \A c \in Ids : \A e \in Entries : Sent(c, e) ~> (e \in appended)

\* C6: once the last handle is dropped the backing thread eventually ends,
\* and it has ended only after processing every entry sent before: nothing is
\* left in the channel and each entry sent has been pushed.
C6_EndsAfterDrain ==
    \A w \in Ids :
        /\ (worker[w].pc # "none" /\ Senders(worker[w].rx) = {}) ~> Ended(w)
        /\ []( (Ended(w) /\ Senders(worker[w].rx) = {})
                  => /\ chan[worker[w].rx] = <<>>
                     /\ \A e \in Entries : Sent(worker[w].rx, e) => e \in appended )

\* C7: while a handle exists its backing thread has not ended, the channel
\* is open, and no Logger::log call has failed its "channel is open" expect.
C7_OpenWhileHandle ==
    /\ \A i \in Handles : ReceiverAlive(handle[i].sender)
    /\ \A t \in Threads : thread[t].pc # ChannelClosed

\* C8: Logger::log never waits: a thread holding a handle can always take
\* the step, whatever the channel holds and whoever holds the mutex, and the
\* step neither takes nor releases the mutex.
C8_LogNeverWaits ==
    /\ [](\A t \in Threads : \A i \in Handles :
             (thread[t].pc = "idle" /\ Total(sent) < MaxLogs) => ENABLED Log(t, i, TRUE))
    /\ [][sent' # sent => (holder' = holder /\ poisoned' = poisoned)]_vars

\* Another thread's callback holds the mutex, an entry is still queued, and
\* a thread with a handle is about to log.
C8_Witness ==
    \E t, u \in Threads :
        /\ t # u
        /\ thread[t].pc = "idle" /\ Total(sent) < MaxLogs /\ Handles # {}
        /\ holder[1] = ByThread(u)
        /\ thread[u].seen = <<>>
        /\ Len(chan[1]) >= 1

C10_CloneShares ==
    /\ alloc.hist = alloc.new /\ alloc.chan = alloc.new /\ alloc.worker = alloc.new
    /\ Cardinality(Workers) = alloc.new
    /\ \A i \in Handles :
          /\ Cardinality({w \in Ids : worker[w].rx = handle[i].sender}) = 1
          /\ Feeds(handle[i].sender) = handle[i].logs
    /\ \A w \in Workers : \A k \in 1..Len(logs[worker[w].logs]) :
          Sent(worker[w].rx, logs[worker[w].logs][k].message)

\* Two loggers exist, the second one reached only through a clone of its
\* handle, and a record logged through that clone stands in its history.
C10_Witness ==
    /\ alloc.new = 2
    /\ Len(handle) = 1 /\ handle[1] = [logs |-> 2, sender |-> 2]
    /\ logs[2] # <<>>
    /\ \E t \in Threads : thread[t].pc = "callback" /\ thread[t].logs = 2

\* The entries for which Logger::log built a container.
Built == {p[1] : p \in built}

\* The container of entry e is still in the queue of a channel.
Queued(e) == \E c \in Ids : \E k \in 1..Len(chan[c]) : chan[c][k].loggable.text = e

\* C11: the log_to of every container is invoked exactly once over the
\* lifetime of the container: never twice, and once by the time the
\* container is gone, whatever becomes of the backing thread and the handles.
C11_RenderedExactlyOnce ==
    \A e \in Built :
        /\ CopiesIn(e, rendered) <= 1
        /\ ~Queued(e) => CopiesIn(e, rendered) = 1

\* The part of C11 that holds: no log_to is invoked twice, and none is
\* invoked on a container still in the queue.
C11_NeverTwice ==
    \A e \in Built :
        /\ CopiesIn(e, rendered) <= 1
        /\ Queued(e) => CopiesIn(e, rendered) = 0

\* The blocks ever allocated for entry e.
BlocksOf(e) == {blk \in BagToSet(allocated) : blk.data = e}

\* C12: no block is allocated for a value of at most 24 bytes; for a larger
\* value one block is allocated, once, with the layout of the value, it is
\* live while the container is, and it is given back once, with that layout,
\* when the container is dropped, rendered or not.
C12_OneBlockFreedOnce ==
    /\ \A p \in built :
          LET e == p[1]
              blk == [data |-> e, layout |-> p[2]]
          IN  IF p[2] <= 24
              THEN BlocksOf(e) = {} /\ ~BagIn(blk, freed)
              ELSE /\ BlocksOf(e) = {blk}
                   /\ CopiesIn(blk, allocated) = 1
                   /\ CopiesIn(blk, freed) = (IF Queued(e) THEN 0 ELSE 1)
                   /\ blk \in heap <=> Queued(e)
    /\ \A blk \in BagToSet(freed) \cup heap : BagIn(blk, allocated)
    /\ \A blk \in BagToSet(allocated) : blk.data \in Built

\* Two boxed containers are gone, one after its log_to ran and one that was
\* never rendered, and the blocks of both have been given back.
C12_Witness ==
    \E p, r \in built :
        /\ p[2] > 24 /\ r[2] > 24
        /\ ~Queued(p[1]) /\ ~Queued(r[1])
        /\ BagIn(p[1], rendered) /\ ~BagIn(r[1], rendered)
        /\ heap = {}
        /\ BagCardinality(freed) = 2

\* C13: a with_logs or clear called from inside a with_logs callback on a
\* handle of the same history never gets the lock: the thread waits for the
\* mutex it holds itself and stays there, so the mutex is never released,
\* the backing thread never gets past its own lock() and the history never
\* changes again.
C13_ReentryBlocksForever ==
    /\ [](\A t \in Threads :
             /\ thread[t].inner \in {"with_logs", "clear"} => thread[t].pc = "blocked"
             /\ thread[t].pc = "blocked" => holder[thread[t].logs] = ByThread(t))
    /\ [][\A t \in Threads :
             thread[t].pc = "blocked" =>
                /\ thread'[t] = thread[t]
                /\ logs'[thread[t].logs] = logs[thread[t].logs]
                /\ holder'[thread[t].logs] = holder[thread[t].logs]
                /\ \A w \in Ids :
                      (worker[w].logs = thread[t].logs /\ worker[w].pc = "lock")
                          => worker'[w] = worker[w]]_vars

\* A callback called clear on its own history and waits, and the backing
\* thread waits for the same mutex with a rendered entry in hand.
C13_Witness ==
    \E t \in Threads : \E w \in Ids :
        /\ thread[t].pc = "blocked" /\ thread[t].inner = "clear"
        /\ worker[w].pc = "lock" /\ worker[w].logs = thread[t].logs

\* C14, as claimed: a Logger::log called from inside a with_logs callback
\* never returns.
C14_LogInCallbackDeadlocks ==
    \A t \in Threads : thread[t].inner # "log"

\* C14, amended: a Logger::log called from inside a with_logs callback never
\* waits, whoever holds the mutex: it returns with the entry sent (or panics
\* on a closed channel, as any log does), the callback goes on holding the
\* lock, and the history it was given stays as it was while it runs.
C14_LogInCallbackReturns ==
    /\ [](\A t \in Threads : \A i \in Handles :
             (thread[t].pc = "callback" /\ Total(sent) < MaxLogs)
                 => ENABLED LogInCallback(t, i, TRUE))
    /\ [](\A t \in Threads :
             (thread[t].pc = "callback" /\ thread[t].inner = "log")
                 => /\ holder[thread[t].logs] = ByThread(t)
                    /\ logs[thread[t].logs] = thread[t].seen)
    /\ [][\A t \in Threads :
             (thread[t].pc = "callback" /\ sent'[t] # sent[t])
                 => \/ thread'[t].pc = "callback" /\ thread'[t].inner = "log"
                    \/ thread'[t].pc = ChannelClosed /\ \E w \in Workers : Ended(w)]_vars

\* A callback has logged on its own handle and runs on, while the backing
\* thread has taken that entry and waits for the lock.
C14_Witness ==
    \E t \in Threads : \E w \in Ids :
        /\ thread[t].pc = "callback" /\ thread[t].inner = "log"
        /\ worker[w].pc = "lock" /\ worker[w].logs = thread[t].logs
        /\ worker[w].buf = <<t, sent[t]>>

\* Who is inside a critical section on history m: the backing thread between
\* its lock() and the drop of its guard, a thread in a with_logs callback, a
\* thread in clear.
Inside(m) ==
    {ByWorker(w) : w \in {v \in Ids : worker[v].pc = "insert" /\ worker[v].logs = m}}
    \cup {ByThread(t) : t \in {u \in Threads : /\ thread[u].pc \in {"callback", "clearing"}
                                               /\ thread[u].logs = m}}

\* C15: at most one of the backing thread's insertion, a with_logs callback
\* and a clear is inside its critical section on a history, and it is the
\* holder of the mutex; the deque a callback was given stays as it was for as
\* long as the callback runs; and the steps of with_logs (taking the lock,
\* returning, unwinding) change neither a history nor a channel.
C15_MutualExclusion ==
    /\ [](\A m \in Ids :
             /\ Cardinality(Inside(m)) <= 1
             /\ Inside(m) = (IF holder[m] = Free THEN {} ELSE {holder[m]}))
    /\ [](\A t \in Threads :
             thread[t].pc = "callback" => logs[thread[t].logs] = thread[t].seen)
    /\ [][\A t \in Threads :
             ((thread[t].pc = "callback" \/ thread'[t].pc = "callback")
                 /\ thread'[t] # thread[t])
                 => (logs' = logs /\ chan' = chan)]_vars

\* A callback inspects a history that holds a record while the backing
\* thread, with the next entry rendered, waits for the mutex.
C15_Witness ==
    \E t \in Threads : \E w \in Ids :
        /\ thread[t].pc = "callback" /\ thread[t].seen # <<>>
        /\ worker[w].pc = "lock" /\ worker[w].logs = thread[t].logs

\* C16: a Logger::log call inserts nothing itself, so a with_logs that the
\* same thread starts after the call has returned may be given a history
\* without the record (the state of C16_Witness); and no callback is given a
\* record for a value whose Logger::log call has not started.
C16_AsyncSubmission ==
    /\ [](\A t \in Threads :
             thread[t].pc = "callback" =>
                \A k \in 1..Len(thread[t].seen) :
                    thread[t].seen[k].message[2] <= sent[thread[t].seen[k].message[1]])
    /\ [][sent' # sent => logs' = logs]_vars

\* The log call of thread t for its latest value has returned, the thread
\* has then started a with_logs, and the callback is given a never cleared
\* history without a record for that value, the backing thread being alive.
C16_Witness ==
    \E t \in Threads :
        /\ thread[t].pc = "callback"
        /\ sent[t] >= 1
        /\ Sent(1, <<t, sent[t]>>)
        /\ fresh[thread[t].logs] = "never"
        /\ \A k \in 1..Len(thread[t].seen) : thread[t].seen[k].message # <<t, sent[t]>>
        /\ ReceiverAlive(1)

\* C17: an insertion by the backing thread is one step taken under the lock:
\* it removes the front record when, and only when, the length equals the
\* limit, appends the new record at the back and releases the lock; nothing
\* but such a step and a clear changes a history.  Hence a history with a
\* limit N >= 1 never exceeds N, and once it holds N records it holds N
\* records for as long as it is not cleared, which is what every later
\* with_logs is given.
C17_InsertEvictsAtLimit ==
    /\ [][\A w \in Ids :
             (worker[w].pc = "insert" /\ worker'[w].pc # "insert") =>
                LET m == worker[w].logs
                    N == worker[w].limit
                    q == logs[m]
                    kept == IF N # None /\ Len(q) = N /\ q # <<>> THEN Tail(q) ELSE q
                IN  /\ holder[m] = ByWorker(w) /\ holder'[m] = Free
                    /\ logs'[m] = Append(kept, [level |-> worker[w].level,
                                                message |-> worker[w].buf])]_vars
    /\ [][\A m \in Ids :
             logs'[m] # logs[m] =>
                \/ logs'[m] = <<>>
                \/ \E w \in Ids : /\ worker[w].logs = m /\ worker[w].pc = "insert"
                                  /\ worker'[w].pc # "insert"]_vars
    /\ [](\A w \in Workers :
             worker[w].limit >= 1 => Len(logs[worker[w].logs]) <= worker[w].limit)
    /\ [][\A w \in Workers :
             ( /\ worker[w].limit >= 1
               /\ Len(logs[worker[w].logs]) = worker[w].limit
               /\ fresh'[worker[w].logs] = "never" )
                 => Len(logs'[worker[w].logs]) = worker[w].limit]_vars

\* With a limit, a callback is given a full, never cleared history from
\* which an earlier record has been evicted.
C17_Witness ==
    \E t \in Threads : \E w \in Workers :
        /\ worker[w].limit >= 1
        /\ thread[t].pc = "callback" /\ thread[t].logs = worker[w].logs
        /\ fresh[worker[w].logs] = "never"
        /\ Len(thread[t].seen) = worker[w].limit
        /\ Cardinality(appended) > worker[w].limit

\* Entry e is pending for history m: queued on the channel that feeds m, or
\* rendered and in the hands of its backing thread.
PendingFor(m, e) ==
    \E w \in Workers :
        /\ worker[w].logs = m
        /\ \/ \E k \in 1..Len(chan[worker[w].rx]) : chan[worker[w].rx][k].loggable.text = e
           \/ worker[w].pc \in {"lock", "insert"} /\ worker[w].buf = e

\* The step in which clear() empties the deque and returns changes nothing
\* but that deque, the lock and the calling thread.
ClearFrame ==
    [][\A t \in Threads :
          (thread[t].pc = "clearing" /\ thread'[t].pc # "clearing") =>
             /\ chan' = chan /\ worker' = worker /\ store' = store
             /\ logs' = [logs EXCEPT ![thread[t].logs] = <<>>]]_vars

\* C18: clear() removes the records of the history and leaves the channel
\* and the backing thread as they are, and an entry that was pending when
\* clear() returned is pushed to the history afterwards.
C18_PendingSurvivesClear ==
    /\ ClearFrame
    /\ \A m \in Ids : \A e \in Entries :
          (fresh[m] = "cleared" /\ PendingFor(m, e)) ~> (e \in appended)

\* The part of C18 that holds: the frame of clear(), and every entry pending
\* when clear() returned is pushed afterwards unless the backing thread ends
\* by a panic first.
C18_PendingSurvivesClearUnlessEnded ==
    /\ ClearFrame
    /\ \A m \in Ids : \A e \in Entries :
          (fresh[m] = "cleared" /\ PendingFor(m, e))
              ~> (e \in appended \/ \E w \in Workers : worker[w].logs = m /\ Ended(w))

\* C19: when log_to returns Err the backing thread unwinds on the spot,
\* before it locks: the step changes no history, no lock and no poison flag
\* and pushes nothing; from then on that thread never moves and nothing is
\* pushed, whatever is queued or logged later; and with_logs and clear still
\* get the lock when it is free and unpoisoned.
C19_RenderFailureStopsWorker ==
    /\ [][\A w \in Ids :
             ( /\ worker[w].pc = "recv"
               /\ chan[worker[w].rx] # <<>>
               /\ ~Front(chan[worker[w].rx]).loggable.ok
               /\ worker'[w] # worker[w] )
                 => /\ worker'[w].pc = RenderFailed
                    /\ logs' = logs /\ holder' = holder /\ poisoned' = poisoned
                    /\ appended' = appended]_vars
    /\ [][\A w \in Ids :
             worker[w].pc = RenderFailed =>
                /\ worker'[w] = worker[w]
                /\ appended' = appended
                /\ logs'[worker[w].logs] \in {logs[worker[w].logs], <<>>}]_vars
    /\ [](\A w \in Ids : \A t \in Threads : \A i \in Handles :
             ( /\ worker[w].pc = RenderFailed /\ handle[i].logs = worker[w].logs
               /\ thread[t].pc = "idle"
               /\ holder[worker[w].logs] = Free /\ ~poisoned[worker[w].logs] )
                 => /\ ENABLED (WithLogs(t, i) /\ thread'[t].pc = "callback")
                    /\ ENABLED (Clear(t, i) /\ thread'[t].pc = "clearing"))

\* The backing thread has unwound on a value that failed to render, with an
\* entry still queued behind it, the mutex free and unpoisoned, and a thread
\* about to use a handle of that history.
C19_Witness ==
    \E w \in Workers :
        /\ worker[w].pc = RenderFailed
        /\ chan[worker[w].rx] # <<>>
        /\ holder[worker[w].logs] = Free /\ ~poisoned[worker[w].logs]
        /\ \E t \in Threads : thread[t].pc = "idle"
        /\ \E i \in Handles : handle[i].logs = worker[w].logs

\* C20: a with_logs callback that panics releases the mutex poisoned, and
\* the poison stays: from then on nobody is ever inside a critical section on
\* that history, every with_logs and clear on a handle of it panics on its
\* expect instead of running, the backing thread panics when it next reaches
\* its lock(), and the history is never changed again.
C20_PoisonedForGood ==
    /\ [][\A t \in Threads :
             (thread[t].pc = "callback" /\ thread'[t].pc = CallbackFailed)
                 => /\ poisoned'[thread[t].logs]
                    /\ holder'[thread[t].logs] = Free]_vars
    /\ [][\A m \in Ids :
             poisoned[m] => (poisoned'[m] /\ logs'[m] = logs[m])]_vars
    /\ [](\A m \in Ids : poisoned[m] => (holder[m] = Free /\ Inside(m) = {}))
    /\ [](\A m \in Ids : \A t \in Threads : \A i \in Handles :
             (poisoned[m] /\ handle[i].logs = m /\ thread[t].pc = "idle")
                 => /\ ENABLED (WithLogs(t, i) /\ thread'[t].pc = LockPoisoned)
                    /\ ENABLED (Clear(t, i) /\ thread'[t].pc = LockPoisoned))
    /\ [][\A w \in Ids :
             (worker[w].pc = "lock" /\ poisoned[worker[w].logs] /\ worker'[w] # worker[w])
                 => worker'[w].pc = LockPoisoned]_vars

\* A callback has panicked on a history that holds a record; since then
\* another thread has panicked in with_logs or clear and the backing thread
\* at its lock().
C20_Witness ==
    \E t, u \in Threads : \E w \in Workers :
        /\ thread[t].pc = CallbackFailed /\ thread[u].pc = LockPoisoned
        /\ worker[w].pc = LockPoisoned
        /\ poisoned[worker[w].logs] /\ logs[worker[w].logs] # <<>>

====
